---- MODULE Spec2Model ----
(***************************************************************************)
(* Telegram invite service (src/server.js): the three HTTP handlers        *)
(*   POST /v1/invite/request   (create)                                    *)
(*   POST /v1/invite/worker    (processStep, called by Cloud Tasks)        *)
(*   POST /v1/telegram/webhook (redemption signal)                         *)
(* over the two Firestore collections invite_requests (store) and          *)
(* invite_lookup (inv), the Cloud Tasks queue (tasks), the Telegram issuer *)
(* and the WebEngage notification sink.                                    *)
(*                                                                         *)
(* Every handler is split at its awaits: one action per awaited call, the  *)
(* synchronous code between two awaits being part of the action that       *)
(* resolves the first one.                                                 *)
(***************************************************************************)
EXTENDS Integers, Sequences, FiniteSets, Bags, TLC

\* ---------------------------------------------------------------- bounds
MaxRequests == 1    \* documents the create endpoint may add
MaxWorkers  == 2    \* worker invocations in flight at once
MaxHooks    == 2    \* webhook invocations in flight at once
MaxDup      == 1    \* duplicate deliveries Cloud Tasks makes in a run
MaxLinks    == 2    \* invite links the issuer hands out in a run
MaxSignals  == 3    \* webhook calls in a run
MaxCalls    == 51   \* issuer calls counted for a request (SpecCalls)

\* ------------------------------------------------------ program constants
MAX_ATTEMPTS == 50

Rids    == 1..MaxRequests
Workers == 1..MaxWorkers
Hooks   == 1..MaxHooks

NoValue == "undefined"      \* a missing field or argument
NoRid   == 0

UserIds      == {"u1"}
TgUserIds    == {"t98", "t99"}
RetryHints   == {<<>>, <<30>>} \* tg.json.parameters: without or with a retry_after
JoinStatuses == {"member", "administrator", "creator"}
Statuses     == {"member", "left"}
NoLink       == 0           \* no inviteLink field
IssuedLinks  == 1..MaxLinks \* links the issuer creates, in order of creation
ForeignLink  == MaxLinks + 1 \* a link this service never issued

\* sha256 (server.js:46): one-way, collision free on the links of the model
sha256(s) == <<"sha256", s>>

\* RetryAfter, were the hint of the failure ignored
RetryAfter_Fixed(parameters) == 10

\* Number(tg.json?.parameters?.retry_after) || 10   (server.js:183)
RetryAfter(parameters) ==
    IF parameters = <<>> \/ parameters[1] = 0 THEN 10 ELSE parameters[1]

VARIABLES
    store,    \* invite_requests: requestId -> document, for the documents that exist
    inv,      \* invite_lookup:   sha256(link) -> document, for the documents that exist
    tasks,    \* Cloud Tasks queue: bag of [requestId, delaySec]
    issued,   \* number of links the issuer has created
    dups,     \* duplicate deliveries made so far
    signals,  \* webhook calls received so far
    rq,       \* the create handler's invocation
    wk,       \* worker invocations, one per slot
    hk,       \* webhook invocations, one per slot
    sent,     \* the HTTP response sent last: [to, body, requestId]
    steps,    \* requestId -> worker steps delivered for it (DeliverCounted counts them)
    joinEvents,  \* requestId -> 'joined' events WebEngage has accepted (res.ok)
    issuerCalls  \* requestId -> calls made to the issuer (TelegramFailsCounted counts them)

vars == <<store, inv, tasks, issued, dups, signals, rq, wk, hk, sent, steps, joinEvents, issuerCalls>>

\* An invocation at rest
NoTg   == [ok |-> FALSE, parameters |-> <<>>, invite_link |-> NoLink]
IdleRq == [pc |-> "idle", rid |-> NoRid, calls |-> <<>>]
IdleWk == [pc |-> "idle", rid |-> NoRid, attempts |-> 0, userId |-> NoValue,
           weLinkEventFired |-> FALSE,
           tg |-> NoTg, ok |-> FALSE, calls |-> <<>>]
IdleHk == [pc |-> "idle", rid |-> NoRid, inviteLink |-> NoLink, userId |-> NoValue,
           telegramUserId |-> NoValue, ok |-> FALSE, calls |-> <<>>]

Init ==
    /\ store = <<>>
    /\ inv = <<>>
    /\ tasks = EmptyBag
    /\ issued = 0
    /\ dups = 0
    /\ signals = 0
    /\ rq = IdleRq
    /\ wk = [w \in Workers |-> IdleWk]
    /\ hk = [h \in Hooks |-> IdleHk]
    /\ steps = [r \in Rids |-> 0]
    /\ joinEvents = [r \in Rids |-> 0]
    /\ issuerCalls = [r \in Rids |-> 0]
    /\ sent = [to |-> NoValue, body |-> NoValue, requestId |-> NoRid]

\* now() (server.js:49). Time is kept relative to the document it is written to:
\* updatedAt is "latest" while it carries the time of the document's latest
\* mutation and "stale" once a later write has left it behind.
now == "latest"

\* ref.update(fields): Firestore merges the given fields into the document; a
\* write that carries no updatedAt leaves the old timestamp in place
Update(r, fields) ==
    [store EXCEPT ![r] =
        [f \in DOMAIN @ |->
            IF f \in DOMAIN fields THEN fields[f]
            ELSE IF f = "updatedAt" THEN "stale"
            ELSE @[f]]]

\* tasks.createTask (server.js:94)
enqueueWorker(requestId, delaySec) ==
    tasks (+) SetToBag({[requestId |-> requestId, delaySec |-> delaySec]})

\* crypto.randomUUID() (server.js:126): an identifier no document uses yet
FreshIds == {r \in Rids : r \notin DOMAIN store /\ \A q \in Rids : q < r => q \in DOMAIN store}

\* The least idle slot takes the next invocation (slots are interchangeable)
FreeWorker(w) == wk[w].pc = "idle" /\ \A v \in Workers : v < w => wk[v].pc # "idle"
FreeHook(h)   == hk[h].pc = "idle" /\ \A g \in Hooks : g < h => hk[g].pc # "idle"

\* No handler is running
Quiet ==
    /\ rq.pc = "idle"
    /\ \A w \in Workers : wk[w].pc = "idle"
    /\ \A h \in Hooks : hk[h].pc = "idle"

\* res.send / res.json: the handler answers and ends
Respond(to, body, requestId) ==
    sent' = [to |-> to, body |-> body, requestId |-> requestId]

(***************************************************************************)
(* 1) POST /v1/invite/request  (server.js:121-143)                         *)
(***************************************************************************)
\* server.js:122-138: validation, then the document is written
CreateRequest(userId) ==
    /\ rq.pc = "idle"
    /\ IF userId = NoValue
       THEN /\ Respond("request", "400 Missing userId", NoRid)
            /\ UNCHANGED <<store, rq>>
       ELSE \E requestId \in FreshIds :
            /\ store' = store @@ (requestId :>
                   [requestId |-> requestId, userId |-> userId, status |-> "QUEUED",
                    attempts |-> 0, updatedAt |-> now, weLinkEventFired |-> FALSE,
                    joinEventFired |-> FALSE, inviteLink |-> NoLink,
                    telegramUserId |-> NoValue])
            /\ rq' = [rq EXCEPT !.pc = "enqueue", !.rid = requestId,
                                !.calls = Append(@, <<"set", requestId>>)]
            /\ UNCHANGED sent
    /\ UNCHANGED <<inv, tasks, issued, dups, signals, wk, hk, steps, joinEvents, issuerCalls>>

\* CreateEnqueue, were the first worker step scheduled with the retry delay
CreateEnqueue_Delayed ==
    /\ rq.pc = "enqueue"
    /\ tasks' = enqueueWorker(rq.rid, 10)
    /\ rq' = IdleRq
    /\ Respond("request", "queued", rq.rid)
    /\ UNCHANGED <<store, inv, issued, dups, signals, wk, hk, steps, joinEvents, issuerCalls>>

\* server.js:140-142: enqueueWorker(requestId), delaySec defaulting to 0
CreateEnqueue ==
    /\ rq.pc = "enqueue"
    /\ tasks' = enqueueWorker(rq.rid, 0)
    /\ rq' = IdleRq
    /\ Respond("request", "queued", rq.rid)
    /\ UNCHANGED <<store, inv, issued, dups, signals, wk, hk, steps, joinEvents, issuerCalls>>

(***************************************************************************)
(* 2) POST /v1/invite/worker  (server.js:148-224)                          *)
(***************************************************************************)
\* WorkerLoad, were the ceiling test attempts >= MAX_ATTEMPTS
WorkerLoad_OffByOne(w, requestId) ==
    LET exists == requestId \in DOMAIN store
        doc == store[requestId] IN
    IF ~exists \/ doc.status = "DONE"
    THEN /\ Respond("worker", "ok", requestId)
         /\ UNCHANGED wk
    ELSE /\ wk' = [wk EXCEPT ![w] = [IdleWk EXCEPT
                !.pc = IF doc.attempts + 1 >= MAX_ATTEMPTS THEN "failed_upd" ELSE "proc_upd",
                !.rid = requestId,
                !.attempts = doc.attempts + 1,
                !.userId = doc.userId,
                !.weLinkEventFired = doc.weLinkEventFired,
                !.calls = <<<<"get", requestId>>>>]]
         /\ UNCHANGED sent

\* WorkerLoad, were the status of the document not tested
WorkerLoad_NoDoneCheck(w, requestId) ==
    LET exists == requestId \in DOMAIN store
        doc == store[requestId] IN
    IF ~exists
    THEN /\ Respond("worker", "ok", requestId)
         /\ UNCHANGED wk
    ELSE /\ wk' = [wk EXCEPT ![w] = [IdleWk EXCEPT
                !.pc = IF doc.attempts + 1 > MAX_ATTEMPTS THEN "failed_upd" ELSE "proc_upd",
                !.rid = requestId,
                !.attempts = doc.attempts + 1,
                !.userId = doc.userId,
                !.weLinkEventFired = doc.weLinkEventFired,
                !.calls = <<<<"get", requestId>>>>]]
         /\ UNCHANGED sent

\* server.js:156-167: ref.get() and the synchronous checks that follow it
WorkerLoad(w, requestId) ==
    LET exists == requestId \in DOMAIN store
        doc == store[requestId] IN
    IF ~exists \/ doc.status = "DONE"
    THEN /\ Respond("worker", "ok", requestId)
         /\ UNCHANGED wk
    ELSE /\ wk' = [wk EXCEPT ![w] = [IdleWk EXCEPT
                !.pc = IF doc.attempts + 1 > MAX_ATTEMPTS THEN "failed_upd" ELSE "proc_upd",
                !.rid = requestId,
                !.attempts = doc.attempts + 1,
                !.userId = doc.userId,
                !.weLinkEventFired = doc.weLinkEventFired,
                !.calls = <<<<"get", requestId>>>>]]
         /\ UNCHANGED sent

\* Cloud Tasks delivers a task and removes it from the queue
DeliverTask(w, t) ==
    /\ FreeWorker(w)
    /\ BagIn(t, tasks)
    /\ tasks' = tasks (-) SetToBag({t})
    /\ WorkerLoad(w, t.requestId)
    /\ UNCHANGED <<store, inv, issued, dups, signals, rq, hk, joinEvents, issuerCalls>>

Deliver(w, t) == DeliverTask(w, t) /\ UNCHANGED steps

\* the same delivery, with the step counted
DeliverCounted(w, t) ==
    DeliverTask(w, t) /\ steps' = [steps EXCEPT ![t.requestId] = @ + 1]

\* Cloud Tasks delivers a task a second time (at-least-once delivery)
Redeliver(w, t) ==
    /\ FreeWorker(w)
    /\ BagIn(t, tasks)
    /\ dups < MaxDup
    /\ dups' = dups + 1
    /\ WorkerLoad(w, t.requestId)
    /\ UNCHANGED <<store, inv, tasks, issued, signals, rq, hk, steps, joinEvents, issuerCalls>>

\* server.js:149-158: the endpoint is called, with the queue header, for a
\* requestId no document exists under
DeliverUnknown(w, requestId) ==
    /\ FreeWorker(w)
    /\ requestId \notin DOMAIN store
    /\ WorkerLoad(w, requestId)
    /\ UNCHANGED <<store, inv, tasks, issued, dups, signals, rq, hk, steps, joinEvents, issuerCalls>>

\* server.js:165-166
WriteFailed(w) ==
    /\ wk[w].pc = "failed_upd"
    /\ store' = Update(wk[w].rid, [status |-> "FAILED", updatedAt |-> now])
    /\ wk' = [wk EXCEPT ![w] = IdleWk]
    /\ Respond("worker", "ok", wk[w].rid)
    /\ UNCHANGED <<inv, tasks, issued, dups, signals, rq, hk, steps, joinEvents, issuerCalls>>

\* server.js:169-173
WriteProcessing(w) ==
    /\ wk[w].pc = "proc_upd"
    /\ store' = Update(wk[w].rid,
                    [status |-> "PROCESSING", attempts |-> wk[w].attempts, updatedAt |-> now])
    /\ wk' = [wk EXCEPT ![w].pc = "tg", ![w].calls = Append(@, <<"update", "PROCESSING">>)]
    /\ UNCHANGED <<inv, tasks, issued, dups, signals, rq, hk, sent, steps, joinEvents, issuerCalls>>

\* server.js:180 (createTelegramLink, 100-116): the issuer refuses, with or
\* without a retry_after in the parameters of its answer
TelegramRefuses(w, parameters) ==
    /\ wk[w].pc = "tg"
    /\ wk' = [wk EXCEPT ![w].pc = "queued_upd",
                        ![w].tg = [NoTg EXCEPT !.parameters = parameters],
                        ![w].calls = Append(@, <<"createTelegramLink">>)]
    /\ UNCHANGED <<store, inv, tasks, issued, dups, signals, rq, hk, sent, steps, joinEvents>>

TelegramFails(w, parameters) == TelegramRefuses(w, parameters) /\ UNCHANGED issuerCalls

\* the same refusal, with the call counted
TelegramFailsCounted(w, parameters) ==
    TelegramRefuses(w, parameters) /\ issuerCalls' = [issuerCalls EXCEPT ![wk[w].rid] = @ + 1]

\* server.js:180 (createTelegramLink, 104 and 114): fetch or res.json() rejects
\* (no connection, an error page that is not JSON). No handler of server.js
\* catches it: the invocation ends there, with no answer. Cloud Tasks keeps a
\* task it got no answer for and delivers it again.
TelegramThrows(w) ==
    /\ wk[w].pc = "tg"
    /\ wk' = [wk EXCEPT ![w] = IdleWk]
    /\ tasks' = enqueueWorker(wk[w].rid, 0)
    /\ UNCHANGED <<store, inv, issued, dups, signals, rq, hk, sent, steps, joinEvents, issuerCalls>>

\* server.js:180: the issuer creates a link no one has been given before
TelegramCreates(w) ==
    /\ wk[w].pc = "tg"
    /\ issued < MaxLinks
    /\ issued' = issued + 1
    /\ wk' = [wk EXCEPT ![w].pc = "inv_set",
                        ![w].tg = [NoTg EXCEPT !.ok = TRUE, !.invite_link = issued + 1],
                        ![w].calls = Append(@, <<"createTelegramLink">>)]
    /\ UNCHANGED <<store, inv, tasks, dups, signals, rq, hk, sent, steps, joinEvents, issuerCalls>>

\* WriteQueued, were the status not reverted before the retry is scheduled
WriteQueued_Skipped(w) ==
    /\ wk[w].pc = "queued_upd"
    /\ wk' = [wk EXCEPT ![w].pc = "enqueue", ![w].calls = Append(@, <<"update", "QUEUED">>)]
    /\ UNCHANGED <<store, inv, tasks, issued, dups, signals, rq, hk, sent, steps, joinEvents, issuerCalls>>

\* server.js:186
WriteQueued(w) ==
    /\ wk[w].pc = "queued_upd"
    /\ store' = Update(wk[w].rid, [status |-> "QUEUED"])
    /\ wk' = [wk EXCEPT ![w].pc = "enqueue", ![w].calls = Append(@, <<"update", "QUEUED">>)]
    /\ UNCHANGED <<inv, tasks, issued, dups, signals, rq, hk, sent, steps, joinEvents, issuerCalls>>

\* WorkerEnqueue, were the retry not scheduled
WorkerEnqueue_Dropped(w) ==
    /\ wk[w].pc = "enqueue"
    /\ wk' = [wk EXCEPT ![w] = IdleWk]
    /\ Respond("worker", "retry scheduled", wk[w].rid)
    /\ UNCHANGED <<store, inv, tasks, issued, dups, signals, rq, hk, steps, joinEvents, issuerCalls>>

\* server.js:183-190
WorkerEnqueue(w) ==
    LET retryAfter == RetryAfter(wk[w].tg.parameters) IN
    /\ wk[w].pc = "enqueue"
    /\ tasks' = enqueueWorker(wk[w].rid, retryAfter)
    /\ wk' = [wk EXCEPT ![w] = IdleWk]
    /\ Respond("worker", "retry scheduled", wk[w].rid)
    /\ UNCHANGED <<store, inv, issued, dups, signals, rq, hk, steps, joinEvents, issuerCalls>>

\* WriteIndex, were the lookup document not written before the request is marked DONE
WriteIndex_Skipped(w) ==
    /\ wk[w].pc = "inv_set"
    /\ wk' = [wk EXCEPT ![w].pc = "done_upd"]
    /\ UNCHANGED <<store, inv, tasks, issued, dups, signals, rq, hk, sent, steps, joinEvents, issuerCalls>>

\* server.js:193-202
WriteIndex(w) ==
    LET inviteLink == wk[w].tg.invite_link
        inviteHash == sha256(inviteLink) IN
    /\ wk[w].pc = "inv_set"
    /\ inv' = [h \in DOMAIN inv \cup {inviteHash} |->
                  IF h = inviteHash
                  THEN [inviteLink |-> inviteLink, requestId |-> wk[w].rid,
                        userId |-> wk[w].userId]
                  ELSE inv[h]]
    /\ wk' = [wk EXCEPT ![w].pc = "done_upd", ![w].calls = Append(@, <<"inv.set", inviteHash>>)]
    /\ UNCHANGED <<store, tasks, issued, dups, signals, rq, hk, sent, steps, joinEvents, issuerCalls>>

\* server.js:204-210, 223
WriteDone(w) ==
    /\ wk[w].pc = "done_upd"
    /\ store' = Update(wk[w].rid,
                    [status |-> "DONE", inviteLink |-> wk[w].tg.invite_link, updatedAt |-> now])
    /\ IF wk[w].weLinkEventFired
       THEN /\ wk' = [wk EXCEPT ![w] = IdleWk]
            /\ Respond("worker", "ok", wk[w].rid)
       ELSE /\ wk' = [wk EXCEPT ![w].pc = "we", ![w].calls = Append(@, <<"update", "DONE">>)]
            /\ UNCHANGED sent
    /\ UNCHANGED <<inv, tasks, issued, dups, signals, rq, hk, steps, joinEvents, issuerCalls>>

\* server.js:211-218 (fireWebEngage, 54-71): res.ok of the notification call
FireLinkEvent(w, ok) ==
    /\ wk[w].pc = "we"
    /\ wk' = [wk EXCEPT ![w].pc = "flag_upd", ![w].ok = ok,
                        ![w].calls = Append(@, <<"fireWebEngage", "link_created">>)]
    /\ UNCHANGED <<store, inv, tasks, issued, dups, signals, rq, hk, sent, steps, joinEvents, issuerCalls>>

\* server.js:220-223
WriteLinkFlag(w) ==
    /\ wk[w].pc = "flag_upd"
    /\ store' = Update(wk[w].rid, [weLinkEventFired |-> wk[w].ok])
    /\ wk' = [wk EXCEPT ![w] = IdleWk]
    /\ Respond("worker", "ok", wk[w].rid)
    /\ UNCHANGED <<inv, tasks, issued, dups, signals, rq, hk, steps, joinEvents, issuerCalls>>

(***************************************************************************)
(* 3) POST /v1/telegram/webhook  (server.js:229-276)                       *)
(***************************************************************************)
\* The fields of a chat_member update the handler reads
Payloads ==
    [inviteLink : {NoLink, ForeignLink} \cup 1..issued,
     status : Statuses,
     telegramUserId : TgUserIds \cup {NoValue}]

\* WebhookLookup, were the new member's status not tested
WebhookLookup_AnyStatus(h, upd) ==
    /\ FreeHook(h)
    /\ signals < MaxSignals
    /\ signals' = signals + 1
    /\ IF \/ upd.inviteLink = NoLink
          \/ upd.telegramUserId = NoValue
       THEN /\ Respond("webhook", "ignored", NoRid)
            /\ UNCHANGED hk
       ELSE LET inviteHash == sha256(upd.inviteLink)
                linkSnap == inv[inviteHash] IN
            IF inviteHash \notin DOMAIN inv
            THEN /\ Respond("webhook", "orphan", NoRid)
                 /\ UNCHANGED hk
            ELSE /\ hk' = [hk EXCEPT ![h] = [IdleHk EXCEPT
                             !.pc = "req_get", !.rid = linkSnap.requestId,
                             !.inviteLink = upd.inviteLink,
                             !.telegramUserId = upd.telegramUserId,
                             !.calls = <<<<"inv.get", inviteHash>>>>]]
                 /\ UNCHANGED sent
    /\ UNCHANGED <<store, inv, tasks, issued, dups, rq, wk, steps, joinEvents, issuerCalls>>

\* server.js:230-249: validation, then the lookup of the link's hash
WebhookLookup(h, upd) ==
    /\ FreeHook(h)
    /\ signals < MaxSignals
    /\ signals' = signals + 1
    /\ IF \/ upd.inviteLink = NoLink
          \/ upd.telegramUserId = NoValue
          \/ upd.status \notin JoinStatuses
       THEN /\ Respond("webhook", "ignored", NoRid)
            /\ UNCHANGED hk
       ELSE LET inviteHash == sha256(upd.inviteLink)
                linkSnap == inv[inviteHash] IN
            IF inviteHash \notin DOMAIN inv
            THEN /\ Respond("webhook", "orphan", NoRid)
                 /\ UNCHANGED hk
            ELSE /\ hk' = [hk EXCEPT ![h] = [IdleHk EXCEPT
                             !.pc = "req_get", !.rid = linkSnap.requestId,
                             !.inviteLink = upd.inviteLink,
                             !.telegramUserId = upd.telegramUserId,
                             !.calls = <<<<"inv.get", inviteHash>>>>]]
                 /\ UNCHANGED sent
    /\ UNCHANGED <<store, inv, tasks, issued, dups, rq, wk, steps, joinEvents, issuerCalls>>

\* WebhookLoad, were joinEventFired not tested
WebhookLoad_NoLatch(h) ==
    LET exists == hk[h].rid \in DOMAIN store
        reqDoc == store[hk[h].rid] IN
    /\ hk[h].pc = "req_get"
    /\ IF ~exists
       THEN /\ hk' = [hk EXCEPT ![h] = IdleHk]
            /\ Respond("webhook", "ok", hk[h].rid)
       ELSE /\ hk' = [hk EXCEPT ![h].pc = "we", ![h].userId = reqDoc.userId,
                               ![h].calls = Append(@, <<"get", hk[h].rid>>)]
            /\ UNCHANGED sent
    /\ UNCHANGED <<store, inv, tasks, issued, dups, signals, rq, wk, steps, joinEvents, issuerCalls>>

\* server.js:251-256
WebhookLoad(h) ==
    LET exists == hk[h].rid \in DOMAIN store
        reqDoc == store[hk[h].rid] IN
    /\ hk[h].pc = "req_get"
    /\ IF ~exists \/ reqDoc.joinEventFired
       THEN /\ hk' = [hk EXCEPT ![h] = IdleHk]
            /\ Respond("webhook", "ok", hk[h].rid)
       ELSE /\ hk' = [hk EXCEPT ![h].pc = "we", ![h].userId = reqDoc.userId,
                               ![h].calls = Append(@, <<"get", hk[h].rid>>)]
            /\ UNCHANGED sent
    /\ UNCHANGED <<store, inv, tasks, issued, dups, signals, rq, wk, steps, joinEvents, issuerCalls>>

\* server.js:258-266 (fireWebEngage, 54-71): res.ok of the notification call
FireJoinEvent(h, ok) ==
    /\ hk[h].pc = "we"
    /\ hk' = [hk EXCEPT ![h].pc = "join_upd", ![h].ok = ok,
                        ![h].calls = Append(@, <<"fireWebEngage", "joined">>)]
    /\ joinEvents' = [joinEvents EXCEPT ![hk[h].rid] = IF ok THEN @ + 1 ELSE @]
    /\ UNCHANGED <<store, inv, tasks, issued, dups, signals, rq, wk, sent, steps, issuerCalls>>

\* server.js:268-275
WriteJoin(h) ==
    /\ hk[h].pc = "join_upd"
    /\ store' = Update(hk[h].rid,
                    [joinEventFired |-> hk[h].ok, telegramUserId |-> hk[h].telegramUserId,
                     updatedAt |-> now])
    /\ hk' = [hk EXCEPT ![h] = IdleHk]
    /\ Respond("webhook", "ok", hk[h].rid)
    /\ UNCHANGED <<inv, tasks, issued, dups, signals, rq, wk, steps, joinEvents, issuerCalls>>

(***************************************************************************)
(* Specifications                                                          *)
(***************************************************************************)
\* A running worker takes its next step
WorkerStep(w) ==
    \/ WriteFailed(w)
    \/ WriteProcessing(w)
    \/ \E parameters \in RetryHints : TelegramFails(w, parameters)
    \/ TelegramCreates(w)
    \/ WriteQueued(w)
    \/ WorkerEnqueue(w)
    \/ WriteIndex(w)
    \/ WriteDone(w)
    \/ \E ok \in BOOLEAN : FireLinkEvent(w, ok)
    \/ WriteLinkFlag(w)

\* A running webhook takes its next step
WebhookStep(h) ==
    \/ WebhookLoad(h)
    \/ \E ok \in BOOLEAN : FireJoinEvent(h, ok)
    \/ WriteJoin(h)

\* Worker invocations overlap and Cloud Tasks delivers at least once. The
\* webhook is left to SpecSeq: it writes joinEventFired, telegramUserId and
\* updatedAt only, and reads nothing a worker step writes but the lookup document.
Next ==
    \/ \E userId \in UserIds : CreateRequest(userId)
    \/ CreateEnqueue
    \/ \E w \in Workers : \E t \in BagToSet(tasks) : Deliver(w, t)
    \/ \E w \in Workers : \E t \in BagToSet(tasks) : Redeliver(w, t)
    \/ \E w \in Workers : WorkerStep(w)

Spec == Init /\ [][Next]_vars

\* The same, with calls of the worker endpoint that name no document
NextAny ==
    \/ Next
    \/ \E w \in Workers : \E requestId \in Rids : DeliverUnknown(w, requestId)

SpecAny == Init /\ [][NextAny]_vars

\* Handlers run one at a time and every task is delivered exactly once
NextSeq ==
    \/ Quiet /\ \E userId \in UserIds \cup {NoValue} : CreateRequest(userId)
    \/ CreateEnqueue
    \/ Quiet /\ \E w \in Workers : \E t \in BagToSet(tasks) : Deliver(w, t)
    \/ \E w \in Workers : WorkerStep(w)
    \/ Quiet /\ \E h \in Hooks : \E upd \in Payloads : WebhookLookup(h, upd)
    \/ \E h \in Hooks : WebhookStep(h)

SpecSeq == Init /\ [][NextSeq]_vars

\* Handlers run one at a time, every task is delivered exactly once and the
\* issuer answers every call with a failure (rate limiting)
NextRateLimited ==
    \/ Quiet /\ \E userId \in UserIds : CreateRequest(userId)
    \/ CreateEnqueue
    \/ Quiet /\ \E w \in Workers : \E t \in BagToSet(tasks) : DeliverCounted(w, t)
    \/ \E w \in Workers : WriteFailed(w)
    \/ \E w \in Workers : WriteProcessing(w)
    \/ \E w \in Workers : \E parameters \in RetryHints : TelegramFails(w, parameters)
    \/ \E w \in Workers : WriteQueued(w)
    \/ \E w \in Workers : WorkerEnqueue(w)

SpecRateLimited == Init /\ [][NextRateLimited]_vars

\* Cloud Tasks delivers every task exactly once; the handlers themselves are
\* not serialised: webhook calls overlap each other and the worker
NextOnce ==
    \/ \E userId \in UserIds \cup {NoValue} : CreateRequest(userId)
    \/ CreateEnqueue
    \/ \E w \in Workers : \E t \in BagToSet(tasks) : Deliver(w, t)
    \/ \E w \in Workers : WorkerStep(w)
    \/ \E h \in Hooks : \E upd \in Payloads : WebhookLookup(h, upd)
    \/ \E h \in Hooks : WebhookStep(h)

SpecOnce == Init /\ [][NextOnce]_vars

\* Worker invocations overlap, Cloud Tasks delivers at least once and the
\* issuer answers every call with a failure; the calls are counted
NextCalls ==
    \/ \E userId \in UserIds : CreateRequest(userId)
    \/ CreateEnqueue
    \/ \E w \in Workers : \E t \in BagToSet(tasks) : Deliver(w, t)
    \/ \E w \in Workers : \E t \in BagToSet(tasks) : Redeliver(w, t)
    \/ \E w \in Workers : WriteFailed(w)
    \/ \E w \in Workers : WriteProcessing(w)
    \/ \E w \in Workers : \E parameters \in RetryHints :
          /\ wk[w].pc = "tg"
          /\ issuerCalls[wk[w].rid] < MaxCalls
          /\ TelegramFailsCounted(w, parameters)
    \/ \E w \in Workers : WriteQueued(w)
    \/ \E w \in Workers : WorkerEnqueue(w)

SpecCalls == Init /\ [][NextCalls]_vars

\* The life of a request: create and the worker steps Cloud Tasks delivers,
\* each task once unless the invocation died (TelegramThrows), with every
\* outcome of the issuer and of the notification sink. Every scheduled task is
\* delivered in the end and every awaited call ends in the end.
NextLife ==
    \/ \E userId \in UserIds : CreateRequest(userId)
    \/ CreateEnqueue
    \/ \E w \in Workers : \E t \in BagToSet(tasks) : Deliver(w, t)
    \/ \E w \in Workers : WorkerStep(w)
    \/ \E w \in Workers : TelegramThrows(w)

SpecLife ==
    /\ Init
    /\ [][NextLife]_vars
    /\ WF_vars(CreateEnqueue)
    /\ WF_vars(\E w \in Workers : \E t \in BagToSet(tasks) : Deliver(w, t))
    /\ WF_vars(\E w \in Workers : WorkerStep(w) \/ TelegramThrows(w))

(***************************************************************************)
(* Properties                                                              *)
(***************************************************************************)
Requests == DOMAIN store

\* the tasks of the queue that name request r
TasksOf(bag, r) == {t \in BagToSet(bag) : t.requestId = r}

\* the lookup documents that name request r
EntriesOf(r) == {h \in DOMAIN inv : inv[h].requestId = r}

\* the calls of a log that go to the named collaborator
CallsTo(calls, name) == {i \in 1..Len(calls) : calls[i][1] = name}

\* C1: once a request's status is DONE no write changes it, whatever the
\* deliveries of its worker steps (duplicated, out of order, overlapping).
C1_DoneIsTerminal ==
    [][\A r \in Requests : store[r].status = "DONE" => store'[r].status = "DONE"]_vars

\* C2: once a request's status is FAILED it stays FAILED and no worker step
\* is scheduled for it any more.
C2_FailedIsTerminal ==
    [][\A r \in Requests : store[r].status = "FAILED" =>
          /\ store'[r].status = "FAILED"
          /\ \A t \in TasksOf(tasks', r) : CopiesIn(t, tasks') <= CopiesIn(t, tasks)]_vars

\* C3: the stored attempts of a request never decrease.
C3_AttemptsNeverDecrease ==
    [][\A r \in Requests : store'[r].attempts >= store[r].attempts]_vars

\* C4 (as claimed): a request whose every issuer call is rate limited is not
\* FAILED after fewer than MAX_ATTEMPTS worker steps and is FAILED once the
\* MAX_ATTEMPTS-th step has completed.
C4_FailedAfterMaxAttemptsSteps ==
    \A r \in Requests :
        /\ steps[r] < MAX_ATTEMPTS => store[r].status # "FAILED"
        /\ (Quiet /\ steps[r] = MAX_ATTEMPTS) => store[r].status = "FAILED"

\* C4 (amended): a request whose every issuer call is rate limited is FAILED
\* after exactly MAX_ATTEMPTS + 1 worker steps: it is not FAILED while at most
\* MAX_ATTEMPTS steps have been delivered, it is FAILED once step
\* MAX_ATTEMPTS + 1 has completed, and no step is scheduled after that one.
C4_FailedAfterOneMoreStep ==
    \A r \in Requests :
        /\ steps[r] <= MAX_ATTEMPTS + 1
        /\ store[r].status = "FAILED" <=>
              (steps[r] = MAX_ATTEMPTS + 1 /\ \A w \in Workers : wk[w].rid # r)
        /\ store[r].status = "FAILED" => TasksOf(tasks, r) = {}
        /\ store[r].attempts <= MAX_ATTEMPTS

C4_Witness ==
    \E r \in Requests :
        /\ store[r].status = "FAILED"
        /\ store[r].attempts = MAX_ATTEMPTS
        /\ steps[r] = MAX_ATTEMPTS + 1
        /\ Quiet

\* C5: weLinkEventFired and joinEventFired are one-way latches: neither is
\* ever written back from true to false.
C5_FlagsAreLatches ==
    [][\A r \in Requests :
          /\ store[r].weLinkEventFired => store'[r].weLinkEventFired
          /\ store[r].joinEventFired => store'[r].joinEventFired]_vars

\* C6 (as claimed): once a redemption signal for an issued link has been
\* handled (one at a time), joinEventFired is true.
C6_JoinFlagSetByFirstSignal ==
    \A r \in Requests :
        (Quiet /\ sent.to = "webhook" /\ sent.body = "ok" /\ sent.requestId = r)
            => store[r].joinEventFired

\* C6 (amended): with signals handled one at a time, the signal that finds
\* joinEventFired false makes exactly one notification call and leaves
\* joinEventFired equal to the success of that call; a signal that finds
\* joinEventFired true ends at once with no notification call and no write.
\* So a second identical signal is a no-op exactly when the first call succeeded.
C6_SecondSignalNoOpAfterSuccess ==
    [][\A h \in Hooks :
          /\ (hk[h].pc = "req_get" /\ hk'[h] # hk[h] /\ hk[h].rid \in Requests) =>
                IF store[hk[h].rid].joinEventFired
                THEN /\ hk'[h] = IdleHk
                     /\ CallsTo(hk[h].calls, "fireWebEngage") = {}
                     /\ UNCHANGED <<store, inv, tasks>>
                     /\ sent' = [to |-> "webhook", body |-> "ok", requestId |-> hk[h].rid]
                ELSE hk'[h].pc = "we"
          /\ (hk[h].pc = "join_upd" /\ hk'[h] # hk[h]) =>
                /\ hk'[h] = IdleHk
                /\ Cardinality(CallsTo(hk[h].calls, "fireWebEngage")) = 1
                /\ store'[hk[h].rid].joinEventFired = hk[h].ok
                /\ store[hk[h].rid].joinEventFired = FALSE]_vars

\* a second, identical signal has been looked up after the first one succeeded
C6_Witness ==
    \E h \in Hooks :
        /\ hk[h].pc = "req_get"
        /\ hk[h].rid \in Requests
        /\ store[hk[h].rid].joinEventFired
        /\ store[hk[h].rid].telegramUserId = hk[h].telegramUserId
        /\ store[hk[h].rid].inviteLink = hk[h].inviteLink
        /\ sent = [to |-> "webhook", body |-> "ok", requestId |-> hk[h].rid]

\* C7: whenever a request is DONE with inviteLink X, invite_lookup holds a
\* document under sha256(X) that names X and this request.
C7_DoneHasIndexEntry ==
    \A r \in Requests :
        store[r].status = "DONE" =>
            /\ sha256(store[r].inviteLink) \in DOMAIN inv
            /\ inv[sha256(store[r].inviteLink)].requestId = r
            /\ inv[sha256(store[r].inviteLink)].inviteLink = store[r].inviteLink

C7_Witness ==
    \E r \in Requests :
        /\ store[r].status = "DONE"
        /\ store[r].inviteLink \in IssuedLinks
        /\ EntriesOf(r) # {}

\* C8: at most one invite_lookup document is ever written for a request.
C8_OneIndexEntryPerRequest ==
    \A r \in Requests : Cardinality(EntriesOf(r)) <= 1

\* C9: a worker step that read attempts = N and whose issuer call failed ends
\* with status QUEUED, attempts = N + 1 and exactly one schedule call, of
\* delay retry_after (10 without one); it writes no lookup document and sends
\* no notification.
C9_RetryStep ==
    /\ [](\A w \in Workers :
            /\ wk[w].pc = "proc_upd" => store[wk[w].rid].attempts = wk[w].attempts - 1
            /\ wk[w].pc \in {"tg", "queued_upd", "enqueue"} =>
                  store[wk[w].rid].attempts = wk[w].attempts)
    /\ [][\A w \in Workers :
            (wk[w].pc = "enqueue" /\ wk'[w] # wk[w]) =>
                LET r == wk[w].rid
                    hint == wk[w].tg.parameters
                    delay == IF hint = <<>> THEN 10 ELSE hint[1] IN
                /\ wk'[w] = IdleWk
                /\ store' = store
                /\ store[r].status = "QUEUED"
                /\ store[r].attempts = wk[w].attempts
                /\ wk[w].attempts <= MAX_ATTEMPTS
                /\ tasks' = tasks (+) SetToBag({[requestId |-> r, delaySec |-> delay]})
                /\ inv' = inv
                /\ wk[w].calls = << <<"get", r>>, <<"update", "PROCESSING">>,
                                   <<"createTelegramLink">>, <<"update", "QUEUED">> >>]_vars

\* Scenario B: the first step of a request was refused with retry_after = 30
C9_Witness ==
    \E r \in Requests :
        /\ Quiet
        /\ sent = [to |-> "worker", body |-> "retry scheduled", requestId |-> r]
        /\ store[r].status = "QUEUED"
        /\ store[r].attempts = 1
        /\ tasks = SetToBag({[requestId |-> r, delaySec |-> 30]})
        /\ inv = <<>>

\* C10: create with a userId writes exactly one new document (QUEUED,
\* attempts 0, both flags false), makes exactly one schedule call, of delay 0,
\* for it and answers with its requestId; create without a userId answers 400
\* and neither writes nor schedules.
C10_Create ==
    [][/\ (rq.pc = "idle" /\ rq'.pc = "enqueue") =>
            /\ rq'.rid \notin Requests
            /\ DOMAIN store' = Requests \cup {rq'.rid}
            /\ \A r \in Requests : store'[r] = store[r]
            /\ store'[rq'.rid].status = "QUEUED"
            /\ store'[rq'.rid].attempts = 0
            /\ store'[rq'.rid].weLinkEventFired = FALSE
            /\ store'[rq'.rid].joinEventFired = FALSE
            /\ store'[rq'.rid].requestId = rq'.rid
            /\ UNCHANGED <<tasks, inv, sent>>
       /\ (rq.pc = "enqueue" /\ rq'.pc = "idle") =>
            /\ tasks' = tasks (+) SetToBag({[requestId |-> rq.rid, delaySec |-> 0]})
            /\ sent' = [to |-> "request", body |-> "queued", requestId |-> rq.rid]
            /\ rq.calls = << <<"set", rq.rid>> >>
            /\ UNCHANGED <<store, inv>>
       /\ (sent' # sent /\ sent'.to = "request" /\ sent'.body # "queued") =>
            /\ sent'.body = "400 Missing userId"
            /\ UNCHANGED <<store, inv, tasks, rq>>]_vars

\* Scenario A: the state right after create("u1")
C10_Witness ==
    \E r \in Requests :
        /\ Quiet
        /\ sent = [to |-> "request", body |-> "queued", requestId |-> r]
        /\ store[r].status = "QUEUED"
        /\ store[r].attempts = 0
        /\ store[r].userId = "u1"
        /\ tasks = SetToBag({[requestId |-> r, delaySec |-> 0]})

\* C11: a webhook call whose update has no invite link, no user id or a status
\* that is not a membership, or whose link has no lookup document, writes
\* neither collection, schedules nothing, sends no notification and starts no
\* further step; it answers "orphan" in the last case and "ignored" in the others.
C11_InvalidSignalIsNoOp ==
    [][\A h \in Hooks : \A upd \in Payloads :
          LET invalid == \/ upd.inviteLink = NoLink
                         \/ upd.telegramUserId = NoValue
                         \/ upd.status \notin JoinStatuses
              orphan == ~invalid /\ sha256(upd.inviteLink) \notin DOMAIN inv IN
          (WebhookLookup(h, upd) /\ (invalid \/ orphan)) =>
              /\ UNCHANGED <<store, inv, tasks, joinEvents, hk, wk, rq>>
              /\ sent' = [to |-> "webhook",
                          body |-> IF invalid THEN "ignored" ELSE "orphan",
                          requestId |-> NoRid]]_vars

\* Scenario E: a signal for a link the service never issued was answered
\* "orphan" while the lookup collection holds the link of a DONE request
C11_Witness ==
    /\ sent = [to |-> "webhook", body |-> "orphan", requestId |-> NoRid]
    /\ \E r \in Requests : store[r].status = "DONE" /\ EntriesOf(r) # {}
    /\ \A h \in Hooks : hk[h].pc = "idle"

\* C12: WebEngage accepts the 'joined' event of a request at most once,
\* however many webhook calls arrive for its link, one after another or
\* overlapping.
C12_JoinEventAtMostOnce ==
    \A r \in Rids : joinEvents[r] <= 1

\* C13: a worker call that finds no document, or a document with status DONE,
\* ends there: it writes neither collection, starts no invocation (so no
\* issuer call and no notification follow), schedules nothing and answers "ok".
C13_AbsentOrDoneIsNoOp ==
    [][\A w \in Workers : \A requestId \in Rids :
          (/\ \/ \E t \in TasksOf(tasks, requestId) : Deliver(w, t) \/ Redeliver(w, t)
              \/ DeliverUnknown(w, requestId)
           /\ \/ requestId \notin Requests
              \/ store[requestId].status = "DONE")
          => /\ UNCHANGED <<store, inv, issued, wk, joinEvents>>
             /\ \A t \in BagToSet(tasks') : CopiesIn(t, tasks') <= CopiesIn(t, tasks)
             /\ sent' = [to |-> "worker", body |-> "ok", requestId |-> requestId]]_vars

\* a task delivered twice: the first delivery ran to DONE with the only link
\* issued, the second one found DONE and ended
C13_Witness ==
    \E r \in Requests :
        /\ store[r].status = "DONE"
        /\ store[r].attempts = 1
        /\ issued = 1
        /\ dups = 1
        /\ tasks = EmptyBag
        /\ \A w \in Workers : wk[w].pc = "idle"
        /\ sent = [to |-> "worker", body |-> "ok", requestId |-> r]

\* C14: every write to a request document refreshes updatedAt: in every
\* state the updatedAt of a document is the time of its latest mutation.
C14_UpdatedAtIsLatestMutation ==
    \A r \in Requests : store[r].updatedAt = now

\* C15: a request document holds an inviteLink only while its status is DONE,
\* and an inviteLink once stored is never replaced by another one, whatever
\* the deliveries of its worker steps (duplicated, overlapping).
C15_LinkOnlyWhenDoneAndImmutable ==
    [][\A r \in DOMAIN store' :
          /\ store'[r].status # "DONE" => store'[r].inviteLink = NoLink
          /\ (r \in Requests /\ store[r].inviteLink # NoLink) =>
                store'[r].inviteLink = store[r].inviteLink]_vars

\* C16: telegramUserId (and joinedAt, written with it) is written at most
\* once per request: the webhook's update never finds a telegramUserId
\* already recorded, whether or not the earlier notification succeeded.
C16_RedeemerWrittenOnce ==
    [][\A h \in Hooks :
          WriteJoin(h) => store[hk[h].rid].telegramUserId = NoValue]_vars

\* C17: a worker step whose issuer call fails, in whatever way, ends with the
\* request QUEUED and a task pending for it, or FAILED (never PROCESSING with
\* nothing pending), and from the failure on it writes no lookup document, no
\* inviteLink and no status DONE.
C17_IssuerFailureIsAbsorbed ==
    [][\A w \in Workers :
          LET r == wk[w].rid
              failed == \/ wk[w].pc = "tg" /\ wk'[w].pc \in {"queued_upd", "idle"}
                        \/ wk[w].pc \in {"queued_upd", "enqueue"} /\ wk'[w] # wk[w] IN
          /\ failed =>
                /\ inv' = inv
                /\ store'[r].inviteLink = store[r].inviteLink
                /\ store'[r].status = "DONE" => store[r].status = "DONE"
          /\ (failed /\ wk'[w].pc = "idle") =>
                \/ store'[r].status = "QUEUED" /\ TasksOf(tasks', r) # {}
                \/ store'[r].status = "FAILED"]_vars

\* C18: the issuer is called at most MAX_ATTEMPTS times for a request and the
\* stored attempts stay within 0..MAX_ATTEMPTS, whatever the deliveries of its
\* worker steps (duplicated, overlapping).
C18_IssuerCallsWithinCeiling ==
    \A r \in Rids :
        /\ issuerCalls[r] <= MAX_ATTEMPTS
        /\ r \in Requests => store[r].attempts \in 0..MAX_ATTEMPTS

\* the tasks pending for request r and the worker invocations running for it
PendingOf(r) == BagCardinality([t \in TasksOf(tasks, r) |-> CopiesIn(t, tasks)])
RunningOf(r) == {w \in Workers : wk[w].pc # "idle" /\ wk[w].rid = r}

\* C19: when Cloud Tasks delivers every task exactly once, a request has at
\* most one worker step pending or running; while a step is pending and none
\* is running its status is QUEUED; once its status is DONE or FAILED no step
\* is pending.
C19_OneStepAtATime ==
    \A r \in Requests :
        /\ PendingOf(r) + Cardinality(RunningOf(r)) <= 1
        /\ (PendingOf(r) = 1 /\ RunningOf(r) = {}) => store[r].status = "QUEUED"
        /\ store[r].status \in {"DONE", "FAILED"} => PendingOf(r) = 0

\* the retry of the last attempt under the ceiling is pending
C19_Witness ==
    \E r \in Requests :
        /\ store[r].status = "QUEUED"
        /\ store[r].attempts = MAX_ATTEMPTS
        /\ tasks = SetToBag({[requestId |-> r, delaySec |-> 30]})
        /\ RunningOf(r) = {}

====
